---- MODULE Spec2Model ----
(***************************************************************************)
(* Model of the airforge backend (src/main.py): the reply parser           *)
(* parse_llm_output, the comment stripping of compile_contract, and the    *)
(* two request handlers generate_contract / compile_contract running on    *)
(* the single event loop started by uvicorn.run.                           *)
(*                                                                         *)
(* Texts are sequences of characters.  Two fixed multi-character words of  *)
(* the program are kept as one symbol each, because no pattern of the      *)
(* program looks inside them:                                              *)
(*   "solidity"                       the tag of the regex on line 44      *)
(*   " SPDX-License-Identifier: MIT"  the tail of the literal on line 108  *)
(* The backtick character is written "BT".                                 *)
(***************************************************************************)
EXTENDS Integers, Sequences, FiniteSets, TLC

VARIABLES
    \* --- parse_llm_output under test
    output,       \* the text handed to parse_llm_output
    parsed,       \* what parse_llm_output returned for it
    \* --- the sanitizer of compile_contract under test
    orig,         \* the submitted request.code
    code,         \* request.code now (mutated in place by each pass)
    prev,         \* request.code before the last pass
    passes,       \* number of sanitizing passes applied to the text
    \* --- the request handlers on the event loop
    pc,           \* per request: "idle", "received", "pending", "done"
    endpoint,     \* per request: "generate" or "compile" ("none" before receipt)
    body,         \* per request: description or code of the request body
    running,      \* the request whose handler occupies the event-loop thread, 0 if none
    calls,        \* per request: number of collaborator invocations made
    sent,         \* per request: the text handed to the collaborator
    collab,       \* per request: what the collaborator answered
    response      \* per request: the HTTP response

vars == <<output, parsed, orig, code, prev, passes,
          pc, endpoint, body, running, calls, sent, collab, response>>

parseVars == <<output, parsed>>
sanVars == <<orig, code, prev, passes>>
serverVars == <<pc, endpoint, body, running, calls, sent, collab, response>>

(***************************************************************************)
(* Bounds                                                                  *)
(***************************************************************************)
MaxReplyPieces == 5
MaxSrcPieces == 5
MaxPasses == 2
NumReq == 2

(***************************************************************************)
(* Text helpers                                                            *)
(***************************************************************************)
RECURSIVE Flatten(_)
Flatten(ps) == IF ps = <<>> THEN <<>> ELSE Head(ps) \o Flatten(Tail(ps))

SeqsUpTo(S, n) == UNION {[1..k -> S] : k \in 0..n}

\* pat occurs in s at index i
MatchAt(s, pat, i) ==
    /\ i >= 1
    /\ i + Len(pat) - 1 <= Len(s)
    /\ \A k \in 1..Len(pat) : s[i + k - 1] = pat[k]

\* index of the leftmost occurrence of pat in s at or after from, 0 if none
Find(s, pat, from) ==
    LET hits == {i \in from..Len(s) : MatchAt(s, pat, i)}
    IN IF hits = {} THEN 0 ELSE CHOOSE i \in hits : \A j \in hits : i <= j

Contains(s, pat) == \E i \in 1..(Len(s) + 1) : MatchAt(s, pat, i)

From(s, i) == SubSeq(s, i, Len(s))

\* str.strip(): whitespace removed at both ends
IsSpace(c) == c \in {" ", "\n"}

RECURSIVE LStrip(_)
LStrip(s) == IF s # <<>> /\ IsSpace(Head(s)) THEN LStrip(Tail(s)) ELSE s

RECURSIVE RStrip(_)
RStrip(s) ==
    IF s # <<>> /\ IsSpace(s[Len(s)]) THEN RStrip(SubSeq(s, 1, Len(s) - 1)) ELSE s

StripLeftOnly(s) == LStrip(s)

Strip(s) == RStrip(LStrip(s))

(***************************************************************************)
(* parse_llm_output (lines 43-51)                                          *)
(***************************************************************************)
Fence == <<"BT", "BT", "BT">>
SolidityFence == <<"BT", "BT", "BT", "solidity">>

\* str.split(sep): leftmost non-overlapping occurrences
RECURSIVE SplitFrom(_, _)
SplitFrom(s, sep) ==
    LET i == Find(s, sep, 1)
    IN IF i = 0 THEN <<s>>
       ELSE <<SubSeq(s, 1, i - 1)>> \o SplitFrom(From(s, i + Len(sep)), sep)

\* a split that yields no part for the empty text (as str.split() without a
\* separator does)
SplitDropEmpty(s, sep) == IF s = <<>> THEN <<>> ELSE SplitFrom(s, sep)

\* output.split(sep): always at least one part, [''] for the empty text
Split(s, sep) == SplitFrom(s, sep)

\* the re.search of line 44 (fence, tag, lazy DOTALL group, fence): the leftmost start at
\* which the pattern can match, the lazy group ending at the nearest fence.
\* Result: [found |-> FALSE] or [found |-> TRUE, group1 |-> text]
\* (RegexSearchGreedy: the same search with a greedy group, (.*) for (.*?))
RegexSearchGreedy(s) ==
    LET starts == {i \in 1..Len(s) :
                      /\ MatchAt(s, SolidityFence, i)
                      /\ Find(s, Fence, i + Len(SolidityFence)) # 0}
    IN IF starts = {} THEN [found |-> FALSE, group1 |-> <<>>]
       ELSE LET i == CHOOSE x \in starts : \A y \in starts : x <= y
                ends == {j \in (i + Len(SolidityFence))..Len(s) : MatchAt(s, Fence, j)}
                j == CHOOSE x \in ends : \A y \in ends : y <= x
            IN [found |-> TRUE,
                group1 |-> SubSeq(s, i + Len(SolidityFence), j - 1)]

RegexSearch(s) ==
    LET starts == {i \in 1..Len(s) :
                      /\ MatchAt(s, SolidityFence, i)
                      /\ Find(s, Fence, i + Len(SolidityFence)) # 0}
    IN IF starts = {} THEN [found |-> FALSE, group1 |-> <<>>]
       ELSE LET i == CHOOSE x \in starts : \A y \in starts : x <= y
                j == Find(s, Fence, i + Len(SolidityFence))
            IN [found |-> TRUE,
                group1 |-> SubSeq(s, i + Len(SolidityFence), j - 1)]

\* parts[0] and parts[-1] raise IndexError on an empty list
\* (parse_second_part: parts[1] taken for parts[-1])
parse_second_part(out) ==
    LET code_match == RegexSearch(out)
        parts == Split(out, Fence)
    IN IF Len(parts) < 2
       THEN [raised |-> TRUE, code |-> <<>>,
             first_explanation |-> <<>>, last_explanation |-> <<>>]
       ELSE [raised |-> FALSE,
             code |-> IF code_match.found THEN Strip(code_match.group1) ELSE <<>>,
             first_explanation |-> Strip(parts[1]),
             last_explanation |-> Strip(parts[2])]

parse_llm_output(out) ==
    LET code_match == RegexSearch(out)
        parts == Split(out, Fence)
    IN IF parts = <<>>
       THEN [raised |-> TRUE, code |-> <<>>,
             first_explanation |-> <<>>, last_explanation |-> <<>>]
       ELSE [raised |-> FALSE,
             code |-> IF code_match.found THEN Strip(code_match.group1) ELSE <<>>,
             first_explanation |-> Strip(parts[1]),
             last_explanation |-> Strip(parts[Len(parts)])]

NotParsed == [raised |-> FALSE, code |-> <<"?">>,
              first_explanation |-> <<"?">>, last_explanation |-> <<"?">>]

ReplyPieces == {Fence, <<"BT">>, <<"solidity">>, <<"a">>, <<" ">>}
ReplyTexts == {Flatten(ps) : ps \in SeqsUpTo(ReplyPieces, MaxReplyPieces)}

(***************************************************************************)
(* The sanitizer of compile_contract (lines 107-111)                       *)
(***************************************************************************)
Slashes == <<"/", "/">>
SpdxLine == <<"/", "/", " SPDX-License-Identifier: MIT">>

\* re.sub(literal, '', s): every leftmost non-overlapping occurrence removed,
\* the result is not rescanned
RECURSIVE RemoveAll(_, _)
RemoveAll(s, pat) ==
    LET i == Find(s, pat, 1)
    IN IF i = 0 THEN s
       ELSE SubSeq(s, 1, i - 1) \o RemoveAll(From(s, i + Len(pat)), pat)

\* re.sub(r'//.*', '', s): '.' matches everything but the newline
RECURSIVE StripLineComments(_)
StripLineComments(s) ==
    LET i == Find(s, Slashes, 1)
    IN IF i = 0 THEN s
       ELSE LET e == Find(s, <<"\n">>, i + 2)
            IN SubSeq(s, 1, i - 1) \o
               (IF e = 0 THEN <<>> ELSE StripLineComments(From(s, e)))

SanitizeSpdxOnly(s) == RemoveAll(s, SpdxLine)

Sanitize(s) == StripLineComments(RemoveAll(s, SpdxLine))

SrcPieces == {SpdxLine, <<"/">>, <<" SPDX-License-Identifier: MIT">>, <<"a">>, <<"\n">>}
SrcTexts == {Flatten(ps) : ps \in SeqsUpTo(SrcPieces, MaxSrcPieces)}

(***************************************************************************)
(* parse_llm_output applied to a reply                                     *)
(***************************************************************************)
ParseInit == output \in ReplyTexts /\ parsed = NotParsed
ParseIdle == output = <<>> /\ parsed = NotParsed

ParseReply ==
    /\ parsed = NotParsed
    /\ parsed' = parse_llm_output(output)
    /\ UNCHANGED <<output, sanVars, serverVars>>

(***************************************************************************)
(* The sanitizing lines of compile_contract applied to a source; a second  *)
(* pass is the sanitized text submitted again                              *)
(***************************************************************************)
SanInit == orig \in SrcTexts /\ code = orig /\ prev = orig /\ passes = 0
SanIdle == orig = <<>> /\ code = <<>> /\ prev = <<>> /\ passes = 0

SanitizePass ==
    /\ passes < MaxPasses
    /\ prev' = code
    /\ code' = Sanitize(code)
    /\ passes' = passes + 1
    /\ UNCHANGED <<orig, parseVars, serverVars>>

(***************************************************************************)
(* generate_smart_contract: the prompt (lines 54-79)                       *)
(***************************************************************************)
\* prompt_template, as format fields: literal text, the escaped braces "{{"
\* and "}}", and the replacement field "{description}"
prompt_template ==
    <<"\n", "You are a blockchain developer. You have following simple token contract example.", "\n",
      "BT", "BT", "BT", "solidity", "\n",
      "pragma solidity ^0.8.20; imports; contract MyToken is ERC20, Ownable ", "{{", "\n",
      "constructor() ERC20 Ownable", "{{", "}}", "\n",
      "function mint(address to, uint256 amount) public onlyOwner ", "{{",
      "_mint(to, amount);", "}}", "\n",
      "}}", "\n",
      "BT", "BT", "BT", "\n",
      "Create a Solidity smart contract with the following description: ", "\n",
      "{description}", "\n">>

\* the example of the template as the collaborator is to read it
ExampleContract ==
    <<"BT", "BT", "BT", "solidity", "\n",
      "pragma solidity ^0.8.20; imports; contract MyToken is ERC20, Ownable ", "{", "\n",
      "constructor() ERC20 Ownable", "{", "}", "\n",
      "function mint(address to, uint256 amount) public onlyOwner ", "{",
      "_mint(to, amount);", "}", "\n",
      "}", "\n",
      "BT", "BT", "BT">>

\* str.format(description=...): the argument is inserted as it is and is not
\* itself read as a format string
RECURSIVE Format(_, _)
Format(t, description) ==
    IF t = <<>> THEN <<>>
    ELSE (CASE Head(t) = "{{" -> <<"{">>
            [] Head(t) = "}}" -> <<"}">>
            [] Head(t) = "{description}" -> description
            [] OTHER -> <<Head(t)>>) \o Format(Tail(t), description)

(***************************************************************************)
(* Collaborators: what they can answer                                     *)
(***************************************************************************)
Req == 1..NumReq

Descriptions == {<<"a">>, <<"{", "a", "}">>}
CompileSources == {<<"a">>, SpdxLine \o <<"\n", "a">>, <<"a", " ", "/", "/", "a">>}

TextBlock(t) == [type |-> "text", text |-> t]
ToolUseBlock == [type |-> "tool_use", name |-> "tool"]

LLMTexts ==
    {<<>>,
     <<" ", "a", "\n">>,
     <<"a", "\n">> \o SolidityFence \o <<"\n", "a", "\n">> \o Fence \o <<"\n", "a">>}

\* CLAUDE_CLIENT.messages.create: raises, or returns a message whose content is
\* a list of blocks
LLMAnswers ==
    {[kind |-> "raise", msg |-> m, content |-> <<>>] :
        m \in {"Request timed out.", "authentication_error"}}
    \cup {[kind |-> "response", msg |-> "", content |-> c] :
        c \in {<<>>, <<ToolUseBlock>>} \cup {<<TextBlock(t)>> : t \in LLMTexts}}

ContractInfo(n) ==
    [name |-> n,
     info |-> [abi |-> <<"abi", n>>,
               evm |-> [bytecode |-> [object |-> <<"6080", n>>]]]]

\* compile_standard: raises SolcError, or returns the output JSON
CompilerAnswers ==
    {[kind |-> "raise", msg |-> m, compiled_sol |-> <<>>] :
        m \in {"ParserError: Expected ';'", "Source not found"}}
    \cup {[kind |-> "compiled", msg |-> "", compiled_sol |-> o] :
        o \in {("sources" :> "ids"),
               ("sources" :> "ids") @@ ("contracts" :> ("Other.sol" :> <<>>))}
           \cup {("sources" :> "ids") @@ ("contracts" :> ("Contract.sol" :> d)) :
                   d \in {<<>>, <<ContractInfo("A")>>,
                          <<ContractInfo("A"), ContractInfo("B")>>,
                          <<ContractInfo("B"), ContractInfo("A")>>}}}

NoAnswer == [kind |-> "none", msg |-> ""]
NoResponse == [status |-> 0]

\* raise HTTPException(status_code=500, detail=str(e))
HTTPException(status_code, detail) == [status |-> status_code, detail |-> detail]

(***************************************************************************)
(* generate_contract (lines 81-102)                                        *)
(***************************************************************************)
\* an empty content list answered like an empty text
GenerateResponseLenient(ans) ==
    IF ans.kind = "raise" THEN HTTPException(500, ans.msg)
    ELSE IF Len(ans.content) = 0 \/ "text" \notin DOMAIN ans.content[1]
    THEN [status |-> 200, code |-> <<>>,
          first_explanation |-> <<>>, last_explanation |-> <<>>]
    ELSE LET p == parse_llm_output(Strip(ans.content[1].text))
         IN [status |-> 200, code |-> p.code,
             first_explanation |-> p.first_explanation,
             last_explanation |-> p.last_explanation]

\* lines 81-90: the call and response.content[0].text.strip() are inside the
\* try; lines 94-102: parse and build the result (an exception there is not
\* caught and becomes the framework's 500)
GenerateResponse(ans) ==
    IF ans.kind = "raise" THEN HTTPException(500, ans.msg)
    ELSE IF Len(ans.content) = 0
    THEN HTTPException(500, "list index out of range")
    ELSE IF "text" \notin DOMAIN ans.content[1]
    THEN HTTPException(500, "'ToolUseBlock' object has no attribute 'text'")
    ELSE LET llm_output == Strip(ans.content[1].text)
             p == parse_llm_output(llm_output)
         IN IF p.raised THEN HTTPException(500, "Internal Server Error")
            ELSE [status |-> 200, code |-> p.code,
                  first_explanation |-> p.first_explanation,
                  last_explanation |-> p.last_explanation]

(***************************************************************************)
(* compile_contract (lines 113-147)                                        *)
(***************************************************************************)
\* a source without contracts answered with an empty result
CompileResponseEmptyOk(ans) ==
    IF ans.kind = "raise" THEN HTTPException(500, ans.msg)
    ELSE IF \/ "contracts" \notin DOMAIN ans.compiled_sol
            \/ "Contract.sol" \notin DOMAIN ans.compiled_sol["contracts"]
            \/ Len(ans.compiled_sol["contracts"]["Contract.sol"]) = 0
    THEN [status |-> 200, abi |-> <<>>, bytecode |-> <<>>]
    ELSE LET contract_info == ans.compiled_sol["contracts"]["Contract.sol"][1].info
         IN [status |-> 200, abi |-> contract_info.abi,
             bytecode |-> contract_info.evm.bytecode.object]

\* lines 136-147: every lookup is inside the try
CompileResponse(ans) ==
    IF ans.kind = "raise" THEN HTTPException(500, ans.msg)
    ELSE LET compiled_sol == ans.compiled_sol
         IN IF "contracts" \notin DOMAIN compiled_sol
            THEN HTTPException(500, "'contracts'")
            ELSE IF "Contract.sol" \notin DOMAIN compiled_sol["contracts"]
            THEN HTTPException(500, "'Contract.sol'")
            ELSE LET contract_data == compiled_sol["contracts"]["Contract.sol"]
                 IN IF Len(contract_data) = 0
                    THEN HTTPException(500, "list index out of range")
                    ELSE LET contract_info == contract_data[1].info
                         IN [status |-> 200, abi |-> contract_info.abi,
                             bytecode |-> contract_info.evm.bytecode.object]

(***************************************************************************)
(* The handlers on the event loop.  Both handlers are coroutines (async    *)
(* def) that reach their collaborator through a synchronous call, so a     *)
(* handler keeps the event-loop thread from its first line to its return.  *)
(***************************************************************************)
ServerInit ==
    /\ pc = [r \in Req |-> "idle"]
    /\ endpoint = [r \in Req |-> "none"]
    /\ body = [r \in Req |-> <<>>]
    /\ running = 0
    /\ calls = [r \in Req |-> 0]
    /\ sent = [r \in Req |-> <<>>]
    /\ collab = [r \in Req |-> NoAnswer]
    /\ response = [r \in Req |-> NoResponse]

ServerIdle == ServerInit

\* a client's POST reaches the server's socket
Receive(r) ==
    /\ pc[r] = "idle"
    /\ \E ep \in {"generate", "compile"} :
          /\ endpoint' = [endpoint EXCEPT ![r] = ep]
          /\ \E b \in (IF ep = "generate" THEN Descriptions ELSE CompileSources) :
                body' = [body EXCEPT ![r] = b]
    /\ pc' = [pc EXCEPT ![r] = "received"]
    /\ UNCHANGED <<running, calls, sent, collab, response, parseVars, sanVars>>

\* the loop runs generate_contract up to the blocking messages.create call
StartGenerate(r) ==
    /\ pc[r] = "received"
    /\ endpoint[r] = "generate"
    /\ running = 0
    /\ running' = r
    /\ sent' = [sent EXCEPT ![r] = Format(prompt_template, body[r])]
    /\ calls' = [calls EXCEPT ![r] = calls[r] + 1]
    /\ pc' = [pc EXCEPT ![r] = "pending"]
    /\ UNCHANGED <<endpoint, body, collab, response, parseVars, sanVars>>

\* a handler that calls again after a failure
FinishGenerateRetry(r) ==
    /\ pc[r] = "pending"
    /\ endpoint[r] = "generate"
    /\ running = r
    /\ \E ans \in LLMAnswers :
          IF GenerateResponse(ans).status = 500 /\ calls[r] < 2
          THEN /\ calls' = [calls EXCEPT ![r] = calls[r] + 1]
               /\ UNCHANGED <<collab, response, pc, running>>
          ELSE /\ collab' = [collab EXCEPT ![r] = ans]
               /\ response' = [response EXCEPT ![r] = GenerateResponse(ans)]
               /\ pc' = [pc EXCEPT ![r] = "done"]
               /\ running' = 0
               /\ UNCHANGED calls
    /\ UNCHANGED <<endpoint, body, sent, parseVars, sanVars>>

\* the call returns or raises; the handler runs to its return or raise
FinishGenerate(r) ==
    /\ pc[r] = "pending"
    /\ endpoint[r] = "generate"
    /\ running = r
    /\ \E ans \in LLMAnswers :
          /\ collab' = [collab EXCEPT ![r] = ans]
          /\ response' = [response EXCEPT ![r] = GenerateResponse(ans)]
    /\ pc' = [pc EXCEPT ![r] = "done"]
    /\ running' = 0
    /\ UNCHANGED <<endpoint, body, calls, sent, parseVars, sanVars>>

\* the loop runs compile_contract up to the blocking compile_standard call
StartCompile(r) ==
    /\ pc[r] = "received"
    /\ endpoint[r] = "compile"
    /\ running = 0
    /\ running' = r
    /\ body' = [body EXCEPT ![r] = Sanitize(body[r])]
    /\ sent' = [sent EXCEPT ![r] = Sanitize(body[r])]
    /\ calls' = [calls EXCEPT ![r] = calls[r] + 1]
    /\ pc' = [pc EXCEPT ![r] = "pending"]
    /\ UNCHANGED <<endpoint, collab, response, parseVars, sanVars>>

FinishCompile(r) ==
    /\ pc[r] = "pending"
    /\ endpoint[r] = "compile"
    /\ running = r
    /\ \E ans \in CompilerAnswers :
          /\ collab' = [collab EXCEPT ![r] = ans]
          /\ response' = [response EXCEPT ![r] = CompileResponse(ans)]
    /\ pc' = [pc EXCEPT ![r] = "done"]
    /\ running' = 0
    /\ UNCHANGED <<endpoint, body, calls, sent, parseVars, sanVars>>

StartHandler(r) == StartGenerate(r) \/ StartCompile(r)

(***************************************************************************)
(* Specifications                                                          *)
(***************************************************************************)
Init == ServerInit /\ ParseIdle /\ SanIdle

Next ==
    \/ \E r \in Req : Receive(r)
    \/ \E r \in Req : StartGenerate(r)
    \/ \E r \in Req : FinishGenerate(r)
    \/ \E r \in Req : StartCompile(r)
    \/ \E r \in Req : FinishCompile(r)

Spec == Init /\ [][Next]_vars

InitParse == ParseInit /\ SanIdle /\ ServerIdle
NextParse == ParseReply
SpecParse == InitParse /\ [][NextParse]_vars

InitSanitize == SanInit /\ ParseIdle /\ ServerIdle
NextSanitize == SanitizePass
SpecSanitize == InitSanitize /\ [][NextSanitize]_vars

(***************************************************************************)
(* Properties                                                              *)
(***************************************************************************)
Pending(r) == pc[r] = "pending"
Done(r) == pc[r] = "done"

\* t is s without the whitespace at its two ends
IsTrimOf(t, s) ==
    \E i \in 1..(Len(s) + 1) : \E j \in 0..Len(s) :
        /\ t = SubSeq(s, i, j)
        /\ \A k \in 1..(i - 1) : IsSpace(s[k])
        /\ \A k \in (j + 1)..Len(s) : IsSpace(s[k])
        /\ t # <<>> => ~IsSpace(t[1]) /\ ~IsSpace(t[Len(t)])

FencePositions(s) == {k \in 1..Len(s) : MatchAt(s, Fence, k)}

\* the first block opened by the tagged fence at i and closed by the fence at j
FirstTaggedBlock(s, i, j) ==
    /\ MatchAt(s, SolidityFence, i)
    /\ \A k \in 1..(i - 1) : ~MatchAt(s, SolidityFence, k)
    /\ j >= i + Len(SolidityFence)
    /\ MatchAt(s, Fence, j)
    /\ \A k \in (i + Len(SolidityFence))..(j - 1) : ~MatchAt(s, Fence, k)

HasTaggedBlock(s) == \E i, j \in 1..Len(s) : FirstTaggedBlock(s, i, j)

\* C1: while one request's collaborator call is pending, any other request
\* that has arrived can start (its handler is not kept waiting behind the call).
C1_NoSerialization ==
    \A r1, r2 \in Req :
        (r1 # r2 /\ Pending(r1) /\ pc[r2] = "received") => ENABLED StartHandler(r2)

\* C2: a generate_contract request calls the language model exactly once, never
\* again whatever the answer, with a prompt holding the example and the exact
\* description.
C2_CalledOnce ==
    \A r \in Req :
        endpoint[r] = "generate" =>
            /\ calls[r] <= 1
            /\ (Pending(r) \/ Done(r)) =>
                  /\ calls[r] = 1
                  /\ Contains(sent[r], ExampleContract)
                  /\ Contains(sent[r], body[r])

C2_Witness ==
    \E r \in Req :
        /\ endpoint[r] = "generate" /\ Done(r)
        /\ response[r].status = 500
        /\ body[r] = <<"{", "a", "}">>

ZeroContracts(ans) ==
    /\ ans.kind = "compiled"
    /\ \/ "contracts" \notin DOMAIN ans.compiled_sol
       \/ "Contract.sol" \notin DOMAIN ans.compiled_sol["contracts"]
       \/ ans.compiled_sol["contracts"]["Contract.sol"] = <<>>

\* C3: a compile_contract request whose compiler raised, or whose source held no
\* contract, is answered 500 with a detail text; a 200 carries abi and bytecode of
\* one contract of the output, a 500 carries neither.
C3_NoPartialResult ==
    \A r \in Req :
        (endpoint[r] = "compile" /\ Done(r)) =>
            /\ response[r].status \in {200, 500}
            /\ (collab[r].kind = "raise" \/ ZeroContracts(collab[r])) =>
                  response[r].status = 500
            /\ response[r].status = 500 =>
                  /\ DOMAIN response[r] = {"status", "detail"}
                  /\ response[r].detail # ""
            /\ response[r].status = 200 =>
                  /\ DOMAIN response[r] = {"status", "abi", "bytecode"}
                  /\ collab[r].kind = "compiled"
                  /\ \E k \in 1..Len(collab[r].compiled_sol["contracts"]["Contract.sol"]) :
                        LET c == collab[r].compiled_sol["contracts"]["Contract.sol"][k]
                        IN /\ response[r].abi = c.info.abi
                           /\ response[r].bytecode = c.info.evm.bytecode.object

C3_Witness ==
    \E r1, r2 \in Req :
        /\ endpoint[r1] = "compile" /\ Done(r1) /\ ZeroContracts(collab[r1])
        /\ endpoint[r2] = "compile" /\ Done(r2) /\ collab[r2].kind = "raise"

LLMFailed(ans) ==
    \/ ans.kind = "raise"
    \/ /\ ans.kind = "response"
       /\ \/ ans.content = <<>>
          \/ "text" \notin DOMAIN ans.content[1]

\* C4: a generate_contract request whose language-model call raised, or answered
\* without a text, is answered 500 with the error's message as detail and without
\* code, first_explanation or last_explanation.
C4_GenerationFailed ==
    \A r \in Req :
        (endpoint[r] = "generate" /\ Done(r) /\ LLMFailed(collab[r])) =>
            /\ response[r].status = 500
            /\ DOMAIN response[r] = {"status", "detail"}
            /\ response[r].detail # ""
            /\ collab[r].kind = "raise" => response[r].detail = collab[r].msg

C4_Witness ==
    \E r1, r2 \in Req :
        /\ endpoint[r1] = "generate" /\ Done(r1) /\ collab[r1].kind = "raise"
        /\ endpoint[r2] = "generate" /\ Done(r2) /\ collab[r2].kind = "response"
        /\ LLMFailed(collab[r2])

\* C5: sanitizing a sanitized source changes nothing.
C5_Idempotent == passes >= 2 => code = prev

C5_Witness ==
    /\ passes = 2
    /\ Contains(orig, SpdxLine)
    /\ prev # orig

\* a line up to its first "//"
CutLine(l) ==
    LET i == Find(l, Slashes, 1) IN IF i = 0 THEN l ELSE SubSeq(l, 1, i - 1)

RECURSIVE CutEveryLine(_)
CutEveryLine(s) ==
    LET e == Find(s, <<"\n">>, 1)
    IN IF e = 0 THEN CutLine(s)
       ELSE CutLine(SubSeq(s, 1, e - 1)) \o <<"\n">> \o CutEveryLine(From(s, e + 1))

\* C6: the sanitized source is the source with, on every line, the text from the
\* first "//" to the end of the line removed, and nothing else changed.
C6_CutsFromFirstSlashes == passes = 1 => code = CutEveryLine(orig)

\* C7: when the reply holds a block opened by the tagged fence and closed by a
\* fence, code is the trimmed interior of the first such block.
C7_CodeIsFirstBlock ==
    parsed # NotParsed =>
        \A i, j \in 1..Len(output) :
            FirstTaggedBlock(output, i, j) =>
                IsTrimOf(parsed.code, SubSeq(output, i + Len(SolidityFence), j - 1))

C7_Witness ==
    /\ parsed # NotParsed
    /\ HasTaggedBlock(output)
    /\ Cardinality(FencePositions(output)) >= 3
    /\ parsed.code # <<>>

\* C8: when the reply holds exactly two fences, around one block, the first
\* explanation is the trimmed text before the opening fence and the last
\* explanation the trimmed text after the closing fence.
C8_ExplanationsAroundBlock ==
    parsed # NotParsed =>
        \A i, j \in 1..Len(output) :
            (FencePositions(output) = {i, j} /\ j >= i + Len(Fence)) =>
                /\ IsTrimOf(parsed.first_explanation, SubSeq(output, 1, i - 1))
                /\ IsTrimOf(parsed.last_explanation, From(output, j + Len(Fence)))

C8_Witness ==
    /\ parsed # NotParsed
    /\ \E i, j \in 1..Len(output) :
          /\ FencePositions(output) = {i, j} /\ j > i + Len(Fence)
          /\ i > 1 /\ j + Len(Fence) <= Len(output)
    /\ parsed.first_explanation # <<>>
    /\ parsed.last_explanation # <<>>

\* C9: when the reply holds no fence, both explanations are the whole trimmed
\* reply and code is empty.
C9_NoFence ==
    (parsed # NotParsed /\ FencePositions(output) = {}) =>
        /\ IsTrimOf(parsed.first_explanation, output)
        /\ IsTrimOf(parsed.last_explanation, output)
        /\ parsed.code = <<>>

C9_Witness ==
    /\ parsed # NotParsed
    /\ FencePositions(output) = {}
    /\ parsed.first_explanation # <<>>
    /\ parsed.first_explanation # output

ReplyChars == {"BT", "solidity", "a", " ", "\n"}

\* C10: parsing never raises: every reply yields three texts, and code is empty
\* when the reply holds no tagged block closed by a fence.
C10_Total ==
    parsed # NotParsed =>
        /\ ~parsed.raised
        /\ parsed.code \in Seq(ReplyChars)
        /\ parsed.first_explanation \in Seq(ReplyChars)
        /\ parsed.last_explanation \in Seq(ReplyChars)
        /\ ~HasTaggedBlock(output) => parsed.code = <<>>

C10_Witness ==
    /\ parsed # NotParsed
    /\ Contains(output, SolidityFence)
    /\ Cardinality(FencePositions(output)) = 1
    /\ parsed.code = <<>>

C10_WitnessEmpty == parsed # NotParsed /\ output = <<>>

====
